---- MODULE Spec2Model ----
(***************************************************************************)
(* Model of upload_sounds.py: zip a local folder, upload the archive over  *)
(* FTP, print the unzip notice, remove the local archive.                  *)
(*                                                                         *)
(* Paths are sequences of components.  A file's bytes are a sequence of    *)
(* blocks; a zip file is one block per member followed by the central      *)
(* directory block.  A file system is a function whose DOMAIN is the set   *)
(* of names that exist.                                                    *)
(***************************************************************************)
EXTENDS Integers, Sequences, FiniteSets, TLC

\* ---- bounds of the model ----
MaxDepth == 1      \* deepest nesting of subdirectories below LOCAL_DIR
MaxRuns == 2       \* how many times the operator runs the script

\* ---- configuration (upload_sounds.py:6-11) ----
LOCAL_DIR == <<"dist", "sounds">>
ZIP_FILE == "sounds.zip"
Cwd == <<"/", "home", "site">>
PARDIR == ".."
CURDIR == "."
ZIP_DEFLATED == 8

\* ---- the bounded universe of source trees ----
SubName == "sub"
FileNames == {"a.txt", "b.txt"}
ScanOrder == <<"a.txt", "b.txt", "sub">>
OtherRemote == "other.bin"

DirAt(k) == LOCAL_DIR \o [i \in 1..k |-> SubName]

EmptyFS == [n \in {} |-> <<>>]

NoTree == [dirs |-> {}, files |-> EmptyFS]

\* the bytes of a source file: distinct for distinct paths, with runs of
\* equal bytes in some and none in others
ContentOf(p) ==
    IF p[Len(p)] = "a.txt"
    THEN <<104>> \o [i \in 1..(Len(p) - Len(LOCAL_DIR)) |-> 105]
    ELSE [i \in 1..(Len(p) - Len(LOCAL_DIR) + 1) |-> 119]

TreesOfDepth(d) ==
    LET cand == {Append(DirAt(k), n) : k \in 0..d, n \in FileNames}
    IN {[dirs |-> {DirAt(k) : k \in 0..d},
         files |-> [p \in S |-> ContentOf(p)]] : S \in SUBSET cand}

Trees == {NoTree} \cup UNION {TreesOfDepth(d) : d \in 0..MaxDepth}

\* ---- os.path ----
join(root, name) == Append(root, name)

abspath(p) == Cwd \o p

RECURSIVE commonLen(_, _)
commonLen(p, s) ==
    IF p # <<>> /\ s # <<>> /\ Head(p) = Head(s)
    THEN 1 + commonLen(Tail(p), Tail(s))
    ELSE 0

relpathBasename(path, start) == <<path[Len(path)]>>

relpath(path, start) ==
    LET p == abspath(path)
        s == abspath(start)
        i == commonLen(p, s)
        rel == [j \in 1..(Len(s) - i) |-> PARDIR] \o SubSeq(p, i + 1, Len(p))
    IN IF rel = <<>> THEN <<CURDIR>> ELSE rel

\* ---- os.walk (top-down, errors of scandir ignored) ----
scandir(t, top) ==
    SelectSeq(ScanOrder, LAMBDA n : join(top, n) \in t.dirs
                                    \/ join(top, n) \in DOMAIN t.files)

RECURSIVE walk(_, _)
RECURSIVE walkInto(_, _, _)
walk(t, top) ==
    IF top \notin t.dirs
    THEN <<>>
    ELSE LET names == scandir(t, top)
             dirs == SelectSeq(names, LAMBDA n : join(top, n) \in t.dirs)
             files == SelectSeq(names, LAMBDA n : join(top, n) \notin t.dirs)
         IN <<[root |-> top, dirs |-> dirs, files |-> files]>>
            \o walkInto(t, top, dirs)

walkInto(t, top, dirs) ==
    IF dirs = <<>>
    THEN <<>>
    ELSE walk(t, join(top, Head(dirs))) \o walkInto(t, top, Tail(dirs))

\* ---- per-member compression and its inverse ----
RECURSIVE runLen(_)
runLen(b) ==
    IF Len(b) >= 2 /\ b[1] = b[2] THEN 1 + runLen(Tail(b)) ELSE 1

RECURSIVE Deflate(_)
Deflate(b) ==
    IF b = <<>>
    THEN <<>>
    ELSE LET n == runLen(b)
         IN <<<<b[1], n>>>> \o Deflate(SubSeq(b, n + 1, Len(b)))

RECURSIVE Inflate(_)
Inflate(c) ==
    IF c = <<>>
    THEN <<>>
    ELSE [i \in 1..Head(c)[2] |-> Head(c)[1]] \o Inflate(Tail(c))

\* ---- zipfile ----
Put(fs, name, bytes) ==
    [n \in DOMAIN fs \cup {name} |-> IF n = name THEN bytes ELSE fs[n]]

Del(fs, name) == [n \in DOMAIN fs \ {name} |-> fs[n]]

Members(bytes) == SelectSeq(bytes, LAMBDA b : b.kind = "member")

CentralDir(members) ==
    [kind |-> "cd", name |-> <<>>, method |-> 0,
     data |-> [i \in 1..Len(members) |-> members[i].name]]

\* ZipFile.close(): the members written so far, then the central directory
ZipClose(members) == Append(members, CentralDir(members))

ZipFileOpenAppend(fs, zip_path) ==
    IF zip_path \in DOMAIN fs THEN Members(fs[zip_path]) ELSE <<>>

\* ZipFile(zip_path, 'w'): whatever was at zip_path is truncated
ZipFileOpen(fs, zip_path) == <<>>

\* zipf.write(file_path, arcname)
ZipWrite(t, file_path, arcname) ==
    [kind |-> "member", name |-> arcname, method |-> ZIP_DEFLATED,
     data |-> Deflate(t.files[file_path])]

RECURSIVE SeqConcat(_)
SeqConcat(ss) == IF ss = <<>> THEN <<>> ELSE Head(ss) \o SeqConcat(Tail(ss))

\* the (file_path, arcname) pairs of the two nested loops, in loop order
ZipPlan(t, folder_path) ==
    LET w == walk(t, folder_path)
    IN SeqConcat([i \in 1..Len(w) |->
           [j \in 1..Len(w[i].files) |->
               LET file_path == join(w[i].root, w[i].files[j])
               IN [file_path |-> file_path,
                   arcname |-> relpath(file_path, folder_path)]]])

\* the members zip_folder has written after its first k writes
ZipMembers(t, folder_path, k) ==
    LET plan == ZipPlan(t, folder_path)
    IN [i \in 1..k |-> ZipWrite(t, plan[i].file_path, plan[i].arcname)]

\* ---- ftplib: the server side of STOR ----
STORTruncated(fs, name, bytes) == Put(fs, name, SubSeq(bytes, 1, Len(bytes) - 1))

STORReplaceDir(fs, name, bytes) == [n \in {name} |-> bytes]

\* STOR name: the server replaces the file of that name in its working
\* directory by the bytes it receives
STOR(fs, name, bytes) == Put(fs, name, bytes)

\* ---- the state ----
VARIABLES
    tree,            \* the local source tree: directories and regular files
    localFS,         \* the working directory: name -> bytes
    remoteFS,        \* REMOTE_DIR on the server: name -> bytes
    remoteDirExists, \* REMOTE_DIR exists on the server
    credsValid,      \* the server accepts FTP_USER / FTP_PASS
    conn,            \* the FTP control connection: "none", "open", "closed"
    pc,              \* position of the script
    exc,             \* the exception being propagated, or "none"
    steps,           \* the steps of __main__ started in this run, with status
    ftpCmds,         \* the FTP operations issued in this run
    exitCode,        \* exit status of the process, -1 while it runs
    run,             \* number of the current run
    history          \* exit codes of the earlier runs

vars == <<tree, localFS, remoteFS, remoteDirExists, credsValid, conn, pc, exc,
          steps, ftpCmds, exitCode, run, history>>

Raw(b) == <<[kind |-> "raw", name |-> <<>>, method |-> 0, data |-> <<b>>]>>

Init ==
    /\ tree \in Trees
    /\ localFS = EmptyFS
    /\ remoteDirExists \in BOOLEAN
    /\ remoteFS \in IF remoteDirExists
                    THEN {[n \in {OtherRemote} |-> Raw(1)],
                          [n \in {OtherRemote, ZIP_FILE} |-> Raw(2)]}
                    ELSE {EmptyFS}
    /\ credsValid \in BOOLEAN
    /\ conn = "none"
    /\ pc = "zip"
    /\ exc = "none"
    /\ steps = <<>>
    /\ ftpCmds = <<>>
    /\ exitCode = -1
    /\ run = 1
    /\ history = <<>>

Step(name, status) == [name |-> name, status |-> status]

Finish(status) == [steps EXCEPT ![Len(steps)].status = status]

RaiseExitZero(e) == exc' = e /\ pc' = "failed" /\ exitCode' = 0

\* an exception nobody catches ends the process with status 1
Raise(e) == exc' = e /\ pc' = "failed" /\ exitCode' = 1

\* ---- zip_folder(LOCAL_DIR, ZIP_FILE), lines 14-20 and 37 ----
ZipFolder ==
    /\ pc = "zip"
    /\ \E writable \in BOOLEAN :
         IF ~writable
         THEN \* ZipFile() cannot open zip_path for writing
              /\ localFS' = localFS
              /\ steps' = Append(steps, Step("archive", "failed"))
              /\ Raise("OSError")
         ELSE LET n == Len(ZipPlan(tree, LOCAL_DIR))
                  old == ZipFileOpen(localFS, ZIP_FILE)
              IN \E k \in 0..n :
                   /\ localFS' = Put(localFS, ZIP_FILE,
                                     ZipClose(old \o ZipMembers(tree, LOCAL_DIR, k)))
                   /\ IF k = n
                      THEN /\ steps' = Append(steps, Step("archive", "ok"))
                           /\ pc' = "connect"
                           /\ UNCHANGED <<exc, exitCode>>
                      ELSE \* write number k+1 cannot read its file
                           /\ steps' = Append(steps, Step("archive", "failed"))
                           /\ Raise("OSError")
    /\ UNCHANGED <<tree, remoteFS, remoteDirExists, credsValid, conn, ftpCmds,
                   run, history>>

\* ---- upload_to_ftp(ZIP_FILE), lines 23-28 and 41 ----
\* FTP(FTP_HOST): the constructor connects
FtpConnect ==
    /\ pc = "connect"
    /\ ftpCmds' = Append(ftpCmds, "connect")
    /\ \E reachable \in BOOLEAN :
         IF reachable
         THEN /\ conn' = "open"
              /\ steps' = Append(steps, Step("upload", "running"))
              /\ pc' = "login"
              /\ UNCHANGED <<exc, exitCode>>
         ELSE /\ conn' = conn
              /\ steps' = Append(steps, Step("upload", "failed"))
              /\ Raise("OSError")
    /\ UNCHANGED <<tree, localFS, remoteFS, remoteDirExists, credsValid, run,
                   history>>

FtpLoginUnchecked ==
    /\ pc = "login"
    /\ ftpCmds' = Append(ftpCmds, "login")
    /\ pc' = "cwd"
    /\ exc' = exc
    /\ UNCHANGED <<tree, localFS, remoteFS, remoteDirExists, credsValid, conn,
                   steps, exitCode, run, history>>

FtpLogin ==
    /\ pc = "login"
    /\ ftpCmds' = Append(ftpCmds, "login")
    /\ IF credsValid
       THEN pc' = "cwd" /\ exc' = exc
       ELSE pc' = "ftp_exit" /\ exc' = "error_perm"
    /\ UNCHANGED <<tree, localFS, remoteFS, remoteDirExists, credsValid, conn,
                   steps, exitCode, run, history>>

FtpCwd ==
    /\ pc = "cwd"
    /\ ftpCmds' = Append(ftpCmds, "cwd")
    /\ IF remoteDirExists
       THEN pc' = "open" /\ exc' = exc
       ELSE pc' = "ftp_exit" /\ exc' = "error_perm"
    /\ UNCHANGED <<tree, localFS, remoteFS, remoteDirExists, credsValid, conn,
                   steps, exitCode, run, history>>

\* open(zip_path, 'rb')
OpenArchive ==
    /\ pc = "open"
    /\ \E readable \in BOOLEAN :
         IF readable /\ ZIP_FILE \in DOMAIN localFS
         THEN pc' = "stor" /\ exc' = exc
         ELSE pc' = "ftp_exit" /\ exc' = "OSError"
    /\ UNCHANGED <<tree, localFS, remoteFS, remoteDirExists, credsValid, conn,
                   steps, ftpCmds, exitCode, run, history>>

\* ftp.storbinary('STOR sounds.zip', f): the server may refuse the command,
\* the transfer may break after any number of blocks, or it completes
Storbinary ==
    /\ pc = "stor"
    /\ ftpCmds' = Append(ftpCmds, "stor")
    /\ LET bytes == localFS[ZIP_FILE]
       IN \/ /\ remoteFS' = remoteFS
             /\ exc' = "error_perm"
          \/ \E k \in 0..Len(bytes) :
                /\ remoteFS' = STOR(remoteFS, ZIP_FILE, SubSeq(bytes, 1, k))
                /\ exc' = IF k = Len(bytes) THEN exc ELSE "OSError"
    /\ pc' = "ftp_exit"
    /\ UNCHANGED <<tree, localFS, remoteDirExists, credsValid, conn, steps,
                   exitCode, run, history>>

FtpExitNoClose ==
    /\ pc = "ftp_exit"
    /\ conn' = IF exc = "none" THEN "closed" ELSE conn
    /\ IF exc = "none"
       THEN /\ steps' = Finish("ok")
            /\ pc' = "notice"
            /\ UNCHANGED <<exc, exitCode>>
       ELSE /\ steps' = Finish("failed")
            /\ Raise(exc)
    /\ UNCHANGED <<tree, localFS, remoteFS, remoteDirExists, credsValid,
                   ftpCmds, run, history>>

FtpExitSwallow ==
    /\ pc = "ftp_exit"
    /\ conn' = "closed"
    /\ steps' = Finish(IF exc = "none" THEN "ok" ELSE "failed")
    /\ pc' = "notice"
    /\ exc' = "none"
    /\ UNCHANGED <<tree, localFS, remoteFS, remoteDirExists, credsValid,
                   ftpCmds, exitCode, run, history>>

\* FTP.__exit__: leaving the with block closes the connection, then the
\* exception, if any, propagates
FtpExit ==
    /\ pc = "ftp_exit"
    /\ conn' = "closed"
    /\ IF exc = "none"
       THEN /\ steps' = Finish("ok")
            /\ pc' = "notice"
            /\ UNCHANGED <<exc, exitCode>>
       ELSE /\ steps' = Finish("failed")
            /\ Raise(exc)
    /\ UNCHANGED <<tree, localFS, remoteFS, remoteDirExists, credsValid,
                   ftpCmds, run, history>>

\* ---- unzip_on_server(), lines 31-32 and 45: prints the notice ----
UnzipOnServer ==
    /\ pc = "notice"
    /\ steps' = Append(steps, Step("notice", "ok"))
    /\ pc' = "remove"
    /\ UNCHANGED <<tree, localFS, remoteFS, remoteDirExists, credsValid, conn,
                   exc, ftpCmds, exitCode, run, history>>

RemoveThenRaise ==
    /\ pc = "remove"
    /\ localFS' = Del(localFS, ZIP_FILE)
    /\ \E removable \in BOOLEAN :
         IF removable /\ ZIP_FILE \in DOMAIN localFS
         THEN /\ steps' = Append(steps, Step("delete", "ok"))
              /\ pc' = "done"
              /\ exitCode' = 0
              /\ exc' = exc
         ELSE /\ steps' = Append(steps, Step("delete", "failed"))
              /\ Raise("OSError")
    /\ UNCHANGED <<tree, remoteFS, remoteDirExists, credsValid, conn, ftpCmds,
                   run, history>>

\* ---- os.remove(ZIP_FILE), line 49; falling off the end exits with 0 ----
Remove ==
    /\ pc = "remove"
    /\ \E removable \in BOOLEAN :
         IF removable /\ ZIP_FILE \in DOMAIN localFS
         THEN /\ localFS' = Del(localFS, ZIP_FILE)
              /\ steps' = Append(steps, Step("delete", "ok"))
              /\ pc' = "done"
              /\ exitCode' = 0
              /\ exc' = exc
         ELSE /\ localFS' = localFS
              /\ steps' = Append(steps, Step("delete", "failed"))
              /\ Raise("OSError")
    /\ UNCHANGED <<tree, remoteFS, remoteDirExists, credsValid, conn, ftpCmds,
                   run, history>>

\* ---- the operator runs the script again ----
StartRun ==
    /\ pc \in {"done", "failed"}
    /\ run < MaxRuns
    /\ run' = run + 1
    /\ history' = Append(history, exitCode)
    /\ credsValid' \in BOOLEAN
    /\ remoteDirExists' \in {remoteDirExists, TRUE}
    /\ conn' = "none"
    /\ pc' = "zip"
    /\ exc' = "none"
    /\ steps' = <<>>
    /\ ftpCmds' = <<>>
    /\ exitCode' = -1
    /\ UNCHANGED <<tree, localFS, remoteFS>>

Next ==
    \/ ZipFolder
    \/ FtpConnect
    \/ FtpLogin
    \/ FtpCwd
    \/ OpenArchive
    \/ Storbinary
    \/ FtpExit
    \/ UnzipOnServer
    \/ Remove
    \/ StartRun

Spec == Init /\ [][Next]_vars

\* ---- vocabulary of the properties ----
StepOrder == <<"archive", "upload", "notice", "delete">>

FtpOrder == <<"connect", "login", "cwd", "stor">>

Terminated == pc \in {"done", "failed"}

AfterUpload == pc \in {"notice", "remove", "done", "failed"}

LocalArchive == ZIP_FILE \in DOMAIN localFS

StepOK(i) == Len(steps) >= i /\ steps[i].status = "ok"

StepFailed(i) == Len(steps) >= i /\ steps[i].status = "failed"

\* the paths of the regular files of t, relative to LOCAL_DIR
RelFiles(t) ==
    {SubSeq(p, Len(LOCAL_DIR) + 1, Len(p)) : p \in DOMAIN t.files}

\* the bytes a complete archive of t consists of
FullArchive(t) ==
    ZipClose(ZipMembers(t, LOCAL_DIR, Len(ZipPlan(t, LOCAL_DIR))))

\* C1: the steps of a run occur in the order archive, upload, notice,
\* delete; a step is started only when every step before it completed
\* without error; after a failed upload the local archive is still there.
C1_StepOrder ==
    /\ Len(steps) <= Len(StepOrder)
    /\ \A i \in 1..Len(steps) : steps[i].name = StepOrder[i]
    /\ \A i \in 1..(Len(steps) - 1) : steps[i].status = "ok"
    /\ (StepFailed(1) => "connect" \notin {ftpCmds[j] : j \in 1..Len(ftpCmds)})
    /\ (Terminated /\ StepFailed(2) => LocalArchive)

C1_Witness == pc = "failed" /\ StepOK(1) /\ StepFailed(2) /\ LocalArchive

\* C2: if the source directory does not exist, zip_folder fails, no FTP
\* connection is attempted and no archive file exists afterwards.
C2_MissingSourceFails ==
    (LOCAL_DIR \notin tree.dirs /\ pc # "zip") =>
        /\ pc = "failed"
        /\ StepFailed(1)
        /\ ftpCmds = <<>>
        /\ ~LocalArchive

\* C3 as stated: after every run that terminated with an error the archive
\* file does not exist.
C3_NoArchiveAfterFailure == pc = "failed" => ~LocalArchive

\* C3 amended: a run that terminated with an error has not deleted the
\* archive: after a failure in the upload or in the cleanup the complete
\* archive of the source tree is still at ZIP_FILE, and the file is absent
\* after a run only if the run succeeded or could not open it for writing.
C3_ArchiveKeptAfterFailure ==
    /\ (pc = "failed" /\ StepOK(1) =>
            LocalArchive /\ localFS[ZIP_FILE] = FullArchive(tree))
    /\ (Terminated /\ ~LocalArchive => pc = "done" \/ StepFailed(1))

C3_Witness == pc = "failed" /\ StepFailed(4) /\ LocalArchive

\* C4: once the control connection has been opened it is closed when
\* upload_to_ftp is left, whether it returned or raised; no position after
\* the upload has the connection open.
C4_ConnectionClosed ==
    AfterUpload =>
        /\ conn # "open"
        /\ (Len(ftpCmds) >= 2 => conn = "closed")

C4_Witness ==
    pc = "failed" /\ conn = "closed" /\ ftpCmds = FtpOrder /\ StepFailed(2)

\* C5: connect, login, cwd, stor are issued in that order, each only after
\* the one before succeeded; with rejected credentials or a missing remote
\* directory STOR is never issued and the remote files stay as they were.
C5_FtpOrder ==
    /\ [](/\ Len(ftpCmds) <= Len(FtpOrder)
          /\ \A i \in 1..Len(ftpCmds) : ftpCmds[i] = FtpOrder[i]
          /\ (~credsValid => Len(ftpCmds) <= 2)
          /\ (~remoteDirExists => Len(ftpCmds) <= 3))
    /\ [][~credsValid \/ ~remoteDirExists => remoteFS' = remoteFS]_vars

C5_Witness ==
    pc = "failed" /\ ~credsValid /\ ftpCmds = <<"connect", "login">>

\* C6: while the archive written by a successful zip_folder is on disk, its
\* member names are exactly the paths of the regular files of the tree
\* relative to its root, once each, without a root or parent segment, and
\* each member inflates to the bytes of its file; the central directory
\* lists the members.
C6_ArchiveMatchesTree ==
    (StepOK(1) /\ pc \notin {"done", "failed"}) =>
        /\ LocalArchive
        /\ LET bytes == localFS[ZIP_FILE]
               m == Members(bytes)
           IN /\ {m[i].name : i \in 1..Len(m)} = RelFiles(tree)
              /\ Len(m) = Cardinality(RelFiles(tree))
              /\ Len(bytes) = Len(m) + 1
              /\ bytes[Len(bytes)] = CentralDir(m)
              /\ \A i \in 1..Len(m) :
                    /\ \A j \in 1..Len(m[i].name) :
                          m[i].name[j] \notin {"/", PARDIR, CURDIR}
                    /\ join(LOCAL_DIR \o SubSeq(m[i].name, 1, Len(m[i].name) - 1),
                            m[i].name[Len(m[i].name)]) \in DOMAIN tree.files
                    /\ Inflate(m[i].data)
                         = tree.files[LOCAL_DIR \o m[i].name]

C6_Witness ==
    /\ pc = "connect"
    /\ LocalArchive
    /\ \E i \in 1..Len(Members(localFS[ZIP_FILE])) :
          Len(Members(localFS[ZIP_FILE])[i].name) >= 2
    /\ \E d \in tree.dirs : \A p \in DOMAIN tree.files :
          SubSeq(p, 1, Len(p) - 1) # d

\* C7 as stated: after a run in which the upload succeeded the remote
\* sounds.zip equals the archive and the local archive no longer exists.
C7_UploadedAndRemoved ==
    (Terminated /\ StepOK(2)) =>
        /\ ZIP_FILE \in DOMAIN remoteFS
        /\ remoteFS[ZIP_FILE] = FullArchive(tree)
        /\ ~LocalArchive

\* C7 amended: once the upload has succeeded the remote sounds.zip equals
\* the archive this run produced; the local archive is gone when the run
\* ended with the deletion done, and is still there, equal to the remote
\* file, when the deletion failed.
C7_UploadedRemovedOnSuccess ==
    (AfterUpload /\ StepOK(2)) =>
        /\ ZIP_FILE \in DOMAIN remoteFS
        /\ remoteFS[ZIP_FILE] = FullArchive(tree)
        /\ (pc = "done" => ~LocalArchive)
        /\ (pc # "done" => LocalArchive /\ localFS[ZIP_FILE] = remoteFS[ZIP_FILE])

C7_Witness ==
    pc = "done" /\ ~LocalArchive /\ Len(FullArchive(tree)) >= 3
        /\ remoteFS[ZIP_FILE] = FullArchive(tree)

\* C8: no step runs twice in a run; the exit status is 0 exactly when all
\* four steps succeeded; otherwise it is non-zero, the failed step is the
\* last one started, and the process has no status while it runs.
C8_ExitStatus ==
    /\ \A i, j \in 1..Len(steps) : steps[i].name = steps[j].name => i = j
    /\ (~Terminated => exitCode = -1)
    /\ (Terminated =>
            /\ exitCode \in {0, 1}
            /\ (exitCode = 0 <=> Len(steps) = 4 /\ \A i \in 1..4 : StepOK(i))
            /\ (exitCode # 0 =>
                    /\ StepFailed(Len(steps))
                    /\ \A i \in 1..(Len(steps) - 1) : StepOK(i)))

C8_Witness == pc = "failed" /\ exitCode = 1 /\ StepFailed(2)

\* C9: a fully successful run that follows a failed run ends in the state
\* a single successful run ends in: the remote sounds.zip is the archive of
\* the source tree and there is no local archive.
C9_RerunAfterFailure ==
    (pc = "done" /\ history # <<>> /\ history[Len(history)] # 0) =>
        /\ ZIP_FILE \in DOMAIN remoteFS
        /\ remoteFS[ZIP_FILE] = FullArchive(tree)
        /\ ~LocalArchive

C9_Witness ==
    pc = "done" /\ history # <<>> /\ history[Len(history)] = 1
        /\ Len(FullArchive(tree)) >= 2

\* C10: no step changes the source tree, and no step creates, changes or
\* removes a remote file other than sounds.zip.
C10_Frame ==
    [][/\ tree' = tree
       /\ DOMAIN remoteFS' \ {ZIP_FILE} = DOMAIN remoteFS \ {ZIP_FILE}
       /\ \A n \in DOMAIN remoteFS \ {ZIP_FILE} : remoteFS'[n] = remoteFS[n]]_vars

C10_Witness ==
    /\ pc = "ftp_exit"
    /\ ftpCmds = FtpOrder
    /\ OtherRemote \in DOMAIN remoteFS
    /\ ZIP_FILE \in DOMAIN remoteFS
    /\ DOMAIN tree.files # {}

====
